---- MODULE Spec2Model ----
(***************************************************************************)
(* Connection supervisor of the SOCKS5 server (socks5.go): construction    *)
(* of the Server by New, the accept loop of Serve, and the per-connection  *)
(* worker ServeConn with its admission to the bounded channel s.sema, the  *)
(* atomic counter ConnCount, the non-blocking publishes on ConnCountChan,  *)
(* the protocol steps and the three deferred functions (cleanup,           *)
(* conn.Close, recover).                                                   *)
(*                                                                         *)
(* Spec is the constructed server with its workers and a reader of the     *)
(* notification channels; SpecNew is the call of New on every Config;      *)
(* SpecServe adds the way a connection reaches its worker (Serve or a      *)
(* direct call of ServeConn); LiveSpec is the workers under fairness.      *)
(*                                                                         *)
(* Every statement of ServeConn that touches shared state (s.sema,         *)
(* s.ConnCount, s.ConnCountChan) is one action, so that workers interleave *)
(* exactly where goroutines can.  Calls to collaborators whose code is not *)
(* part of socks5.go (bufConn.Read, authenticate, NewRequest, sendReply,   *)
(* handleRequest) are one action each whose result is drawn from the       *)
(* outcomes the call site distinguishes, plus a panic.                     *)
(***************************************************************************)
EXTENDS Integers, Sequences, FiniteSets, TLC

\* ---------------------------------------------------------------- bounds
NumConns == 2
MaxConnLimit == 1
MaxAuthMethods == 2

\* ------------------------------------------------------ program constants
socks5Version == 5
DefaultConnLimit == 50000

\* ------------------------------------------------------------ input sets
Conns == 1..NumConns
\* first bytes a client may send: the SOCKS5 version and a foreign one
VersionBytes == {4, socks5Version}
\* results of authenticate; NoAuthContext is the nil *AuthContext
NoAuthContext == "nil"
AuthContexts == {"noauth", "userpass"}
\* reply status written by ServeConn itself
addrTypeNotSupported == 8
\* error values of NewRequest that ServeConn tells apart
unrecognizedAddrType == "unrecognizedAddrType"
otherDecodeError == "decodeError"
\* the nil error (also of err before NewRequest) and a non-nil error
\* returned by ServeConn
NoError == "nil"
Error == "err"
\* the errors returned before authentication: the read error of line 194
\* and "Unsupported SOCKS version" of line 201
VersionError == "errVersion"

\* the nil interface value of the fields of Config, and a value the
\* caller provided
Nil == "nil"
Provided == "provided"
\* authenticators: the two that New installs by itself and one of the
\* caller's own; code is what GetCode() returns
NoAuthAuthenticator == [type |-> "NoAuthAuthenticator", code |-> "NoAuth"]
UserPassAuthenticator ==
    [type |-> "UserPassAuthenticator", code |-> "UserPassAuth"]
CustomAuthenticator == [type |-> "custom", code |-> "custom"]
Authenticators ==
    {NoAuthAuthenticator, UserPassAuthenticator, CustomAuthenticator}
\* the Configs handed to New
AuthMethodLists ==
    UNION {[1..n -> Authenticators] : n \in 0..MaxAuthMethods}
Configs ==
    [AuthMethods : AuthMethodLists,
     Credentials : {Nil, Provided},
     Resolver : {Nil, Provided},
     Rules : {Nil, Provided},
     Logger : {Nil, Provided},
     ConnLimit : 0..MaxConnLimit]

VARIABLES
    conf,              \* the Config as the caller filled it in
    newErr,            \* the error New returned, "none" before the call
    config,            \* s.config: the Config after the defaulting of New
    authMethods,       \* s.authMethods: GetCode() -> Authenticator
    serve,             \* the accept loop of Serve and its listener
    semaCap,           \* cap(s.sema)
    sema,              \* len(s.sema): occupied slots
    ConnCount,         \* s.ConnCount
    consumer,          \* the reader of the two notification channels
    FinishedConnChan,  \* what was sent on s.FinishedConnChan
    pc,                \* position of every ServeConn worker
    local,             \* locals, results and effects of every worker
    crashed            \* the process died of an unrecovered panic

vars == <<conf, newErr, config, authMethods, serve, semaCap, sema,
          ConnCount, consumer, FinishedConnChan, pc, local, crashed>>

\* --------------------------------------------------------------- New
\* lines 113-117: every authenticator of the list is stored under its
\* code, a later one replaces an earlier one with the same code
RECURSIVE AuthTable(_)
AuthTable(methods) ==
    IF methods = <<>>
    THEN <<>>
    ELSE LET n == Len(methods)
             a == methods[n]
             rest == AuthTable(SubSeq(methods, 1, n - 1))
         IN  [code \in DOMAIN rest \cup {a.code} |->
                 IF code = a.code THEN a ELSE rest[code]]

\* (variant: a ConnLimit of 0 is taken as it is)
NewNoDefaultLimit(cf) ==
    LET methods ==
            IF Len(cf.AuthMethods) = 0
            THEN IF cf.Credentials # Nil
                 THEN <<UserPassAuthenticator>>
                 ELSE <<NoAuthAuthenticator>>
            ELSE cf.AuthMethods
        default(v, d) == IF v = Nil THEN d ELSE v
    IN  [config |-> [cf EXCEPT !.AuthMethods = methods,
                               !.Resolver = default(@, "DNSResolver"),
                               !.Rules = default(@, "PermitAll"),
                               !.Logger = default(@, "os.Stdout")],
         authMethods |-> AuthTable(methods),
         semaCap |-> cf.ConnLimit,
         sema |-> 0,
         ConnCount |-> 0,
         err |-> NoError]

\* New(conf): the defaulting of the Config in place, make(chan struct{},
\* conf.ConnLimit), the table of authenticators; the result is the server
\* and a nil error
New(cf) ==
    LET methods ==
            IF Len(cf.AuthMethods) = 0
            THEN IF cf.Credentials # Nil
                 THEN <<UserPassAuthenticator>>
                 ELSE <<NoAuthAuthenticator>>
            ELSE cf.AuthMethods
        default(v, d) == IF v = Nil THEN d ELSE v
        limit == IF cf.ConnLimit = 0 THEN DefaultConnLimit ELSE cf.ConnLimit
    IN  [config |-> [cf EXCEPT !.AuthMethods = methods,
                               !.Resolver = default(@, "DNSResolver"),
                               !.Rules = default(@, "PermitAll"),
                               !.Logger = default(@, "os.Stdout"),
                               !.ConnLimit = limit],
         authMethods |-> AuthTable(methods),
         semaCap |-> limit,
         sema |-> 0,
         ConnCount |-> 0,
         err |-> NoError]

\* a Config with nothing but ConnLimit filled in
ZeroConfig(limit) ==
    [AuthMethods |-> <<>>, Credentials |-> Nil, Resolver |-> Nil,
     Rules |-> Nil, Logger |-> Nil, ConnLimit |-> limit]

NoRequest == [made |-> FALSE, AuthContext |-> NoAuthContext]

InitLocal ==
    [admitted |-> FALSE,       \* the send on s.sema succeeded
     ret |-> "none",           \* value returned: "none", NoError or an error
     panicking |-> FALSE,      \* a panic is unwinding the worker
     recovered |-> FALSE,      \* recover() returned non-nil
     closed |-> FALSE,         \* conn.Close() ran
     deadline |-> FALSE,       \* conn.SetDeadline was called
     io |-> FALSE,             \* a call that reads or writes conn was made
     version |-> 0,            \* version[0]
     authContext |-> NoAuthContext,
     request |-> NoRequest,
     err |-> NoError,          \* err of line 212
     replies |-> <<>>,         \* statuses passed to sendReply
     dispatched |-> FALSE,     \* s.handleRequest was called
     increments |-> 0,         \* atomic.AddInt64(&s.ConnCount, 1) done
     publishes |-> 0,          \* selects on s.ConnCountChan done
     releases |-> 0,           \* <-s.sema done
     decrements |-> 0]         \* atomic.AddInt64(&s.ConnCount, -1) done

\* The notification channels are made without a buffer (make(chan int64),
\* make(chan FinishedConnInfo)): a value passes only to a receiver that is
\* blocked in its receive at that moment.  The reader of the channels, if
\* the program has one (consumer.present), is one goroutine that selects on
\* both; consumer.waiting says that it is blocked in that select.
\* the server that New made of cf
Constructed(cf) ==
    LET srv == New(cf) IN
    /\ conf = cf
    /\ newErr = srv.err
    /\ config = srv.config
    /\ authMethods = srv.authMethods
    /\ semaCap = srv.semaCap
    /\ sema = srv.sema
    /\ ConnCount = srv.ConnCount

\* the program that hands its connections to ServeConn by itself: no
\* listener, no accept loop
NoServe ==
    [caller |-> "ServeConn", listener |-> "none", logged |-> FALSE,
     returned |-> FALSE]

\* the server is constructed and every connection is at the entry of its
\* ServeConn
Init ==
    \E limit \in 0..MaxConnLimit, p \in BOOLEAN :
        /\ Constructed(ZeroConfig(limit))
        /\ serve = NoServe
        /\ consumer = [present |-> p, waiting |-> FALSE]
        /\ FinishedConnChan = [sent |-> 0]
        /\ pc = [c \in Conns |-> "start"]
        /\ local = [c \in Conns |-> InitLocal]
        /\ crashed = FALSE

\* ------------------------------------------------------------- helpers
Goto(c, l) == pc' = [pc EXCEPT ![c] = l]
SetLocal(c, rec) == local' = [local EXCEPT ![c] = rec]
\* what no step of a worker changes
Fixed == <<conf, newErr, config, authMethods, serve, semaCap>>
Server == <<Fixed, sema, ConnCount>>
Chans == <<consumer, FinishedConnChan>>

\* (variant: the buffer takes one token more than its capacity)
SemaHasRoomOffByOne == sema <= semaCap

\* a send on the buffered s.sema can proceed iff the buffer is not full
SemaHasRoom == sema < semaCap

\* GetConnCount: atomic.LoadInt64(&s.ConnCount)
GetConnCount == ConnCount

\* select { case s.ConnCountChan <- v: default: }: the send case is taken
\* iff a receiver is blocked on the channel, and it then leaves its receive
\* with v (what the reader does with v is not part of the server)
TrySend(rd, v) ==
    IF rd.waiting THEN [rd EXCEPT !.waiting = FALSE] ELSE rd

\* a return statement or a panic ends the body: the locals of the body are
\* gone and the deferred calls run, last registered first; the cleanup of
\* line 174 is registered only after admission
Unwind(l) ==
    [l EXCEPT !.version = 0, !.authContext = NoAuthContext,
              !.request = NoRequest, !.err = NoError]

\* (variant: conn.Close() is deferred last, so that it runs first)
ReturnClosesFirst(c, l, r) ==
    /\ SetLocal(c, [Unwind(l) EXCEPT !.ret = r, !.closed = TRUE])
    /\ Goto(c, IF l.admitted THEN "release" ELSE "close")

Return(c, l, r) ==
    /\ SetLocal(c, [Unwind(l) EXCEPT !.ret = r])
    /\ Goto(c, IF l.admitted THEN "release" ELSE "close")

\* (variant: the cleanup is not deferred, a panic skips it)
PanicSkipsCleanup(c, l) ==
    /\ SetLocal(c, [Unwind(l) EXCEPT !.panicking = TRUE])
    /\ Goto(c, "close")

Panic(c, l) ==
    /\ SetLocal(c, [Unwind(l) EXCEPT !.panicking = TRUE])
    /\ Goto(c, IF l.admitted THEN "release" ELSE "close")

\* ------------------------------------------------ ServeConn: admission
\* line 168: case s.sema <- struct{}{}
Admit(c) ==
    /\ ~crashed /\ pc[c] = "start"
    /\ SemaHasRoom
    /\ sema' = sema + 1
    /\ SetLocal(c, [local[c] EXCEPT !.admitted = TRUE])
    /\ Goto(c, "incr")
    /\ UNCHANGED <<Fixed, ConnCount, Chans, crashed>>

\* (variant: a plain send s.sema <- struct{}{}, which waits for a slot)
RejectWaits(c) ==
    /\ ~crashed /\ pc[c] = "start"
    /\ ~SemaHasRoom
    /\ FALSE
    /\ UNCHANGED vars

\* (variant: the cleanup is deferred before the admission attempt, so that
\* a rejected worker runs it too)
RejectRunsCleanup(c) ==
    /\ ~crashed /\ pc[c] = "start"
    /\ ~SemaHasRoom
    /\ SetLocal(c, [Unwind(local[c]) EXCEPT !.ret = Error])
    /\ Goto(c, "release")
    /\ UNCHANGED <<Server, Chans, crashed>>

\* lines 169-172: default: return err
Reject(c) ==
    /\ ~crashed /\ pc[c] = "start"
    /\ ~SemaHasRoom
    /\ Return(c, local[c], Error)
    /\ UNCHANGED <<Server, Chans, crashed>>

\* (variant: the admission is counted twice)
IncrementTwice(c) ==
    /\ ~crashed /\ pc[c] = "incr"
    /\ ConnCount' = ConnCount + 2
    /\ SetLocal(c, [local[c] EXCEPT !.increments = @ + 1])
    /\ Goto(c, "publishAdmit")
    /\ UNCHANGED <<Fixed, sema, Chans, crashed>>

\* (variant: the admission is not counted)
IncrementForgotten(c) ==
    /\ ~crashed /\ pc[c] = "incr"
    /\ SetLocal(c, [local[c] EXCEPT !.increments = @ + 1])
    /\ Goto(c, "publishAdmit")
    /\ UNCHANGED <<Server, Chans, crashed>>

\* line 182: atomic.AddInt64(&s.ConnCount, 1)
Increment(c) ==
    /\ ~crashed /\ pc[c] = "incr"
    /\ ConnCount' = ConnCount + 1
    /\ SetLocal(c, [local[c] EXCEPT !.increments = @ + 1])
    /\ Goto(c, "publishAdmit")
    /\ UNCHANGED <<Fixed, sema, Chans, crashed>>

\* (variant: a plain send s.ConnCountChan <- v, which waits for a receiver)
PublishAdmitBlocks(c) ==
    /\ ~crashed /\ pc[c] = "publishAdmit"
    /\ consumer.waiting
    /\ consumer' = [consumer EXCEPT !.waiting = FALSE]
    /\ SetLocal(c, [local[c] EXCEPT !.publishes = @ + 1])
    /\ Goto(c, "readVersion")
    /\ UNCHANGED <<Server, FinishedConnChan, crashed>>

\* lines 183-186: select { case s.ConnCountChan <- s.GetConnCount():
\* default: }, the non-blocking send of the count read after the increment
PublishAdmit(c) ==
    /\ ~crashed /\ pc[c] = "publishAdmit"
    /\ consumer' = TrySend(consumer, GetConnCount)
    /\ SetLocal(c, [local[c] EXCEPT !.publishes = @ + 1])
    /\ Goto(c, "readVersion")
    /\ UNCHANGED <<Server, FinishedConnChan, crashed>>

\* ------------------------------------------------- ServeConn: protocol
\* (variant: the version byte is read and not compared)
ReadVersionUnchecked(c) ==
    /\ ~crashed /\ pc[c] = "readVersion"
    /\ LET l == [local[c] EXCEPT !.io = TRUE] IN
       \/ Panic(c, l)
       \/ Return(c, l, VersionError)
       \/ \E b \in VersionBytes :
            /\ SetLocal(c, [l EXCEPT !.version = b])
            /\ Goto(c, "authenticate")
    /\ UNCHANGED <<Server, Chans, crashed>>

\* lines 188-202: read the version byte and compare it with socks5Version
ReadVersion(c) ==
    /\ ~crashed /\ pc[c] = "readVersion"
    /\ LET l == [local[c] EXCEPT !.io = TRUE] IN
       \/ Panic(c, l)
       \/ Return(c, l, VersionError)
       \/ \E b \in VersionBytes :
            LET lv == [l EXCEPT !.version = b] IN
            IF b # socks5Version
            THEN Return(c, lv, VersionError)
            ELSE SetLocal(c, lv) /\ Goto(c, "authenticate")
    /\ UNCHANGED <<Server, Chans, crashed>>

\* (variant: a failed authentication is tried again from the version byte)
AuthenticateRetries(c) ==
    /\ ~crashed /\ pc[c] = "authenticate"
    /\ \E o \in {"err", "panic"} \cup AuthContexts :
        LET l == [local[c] EXCEPT !.io = TRUE] IN
        CASE o = "panic" -> Panic(c, l)
          [] o = "err" -> /\ SetLocal(c, [l EXCEPT !.version = 0])
                          /\ Goto(c, "readVersion")
          [] OTHER -> /\ SetLocal(c, [l EXCEPT !.authContext = o])
                      /\ Goto(c, "NewRequest")
    /\ UNCHANGED <<Server, Chans, crashed>>

\* lines 205-210: authContext, err := s.authenticate(conn, bufConn)
Authenticate(c) ==
    /\ ~crashed /\ pc[c] = "authenticate"
    /\ \E o \in {"err", "panic"} \cup AuthContexts :
        LET l == [local[c] EXCEPT !.io = TRUE] IN
        CASE o = "panic" -> Panic(c, l)
          [] o = "err" -> Return(c, l, Error)
          [] OTHER -> /\ SetLocal(c, [l EXCEPT !.authContext = o])
                      /\ Goto(c, "NewRequest")
    /\ UNCHANGED <<Server, Chans, crashed>>

\* line 212: request, err := NewRequest(bufConn)
NewRequest(c) ==
    /\ ~crashed /\ pc[c] = "NewRequest"
    /\ \E o \in {"ok", unrecognizedAddrType, otherDecodeError, "panic"} :
        LET l == [local[c] EXCEPT !.io = TRUE] IN
        CASE o = "panic" -> Panic(c, l)
          [] o = "ok" -> /\ SetLocal(c, [l EXCEPT !.request.made = TRUE])
                         /\ Goto(c, "attach")
          [] OTHER -> /\ SetLocal(c, [l EXCEPT !.err = o])
                      /\ Goto(c, "decodeError")
    /\ UNCHANGED <<Server, Chans, crashed>>

\* (variant: every decode error is returned without a reply)
DecodeErrorNoReply(c) ==
    /\ ~crashed /\ pc[c] = "decodeError"
    /\ Return(c, local[c], Error)
    /\ UNCHANGED <<Server, Chans, crashed>>

\* lines 213-220: if err == unrecognizedAddrType, sendReply(conn,
\* addrTypeNotSupported, nil) and return the error of the write if it
\* failed; return the decode error
DecodeError(c) ==
    /\ ~crashed /\ pc[c] = "decodeError"
    /\ IF local[c].err = unrecognizedAddrType
       THEN \E o \in {"ok", "err", "panic"} :
              LET l == [local[c] EXCEPT
                           !.replies = Append(@, addrTypeNotSupported)]
              IN  IF o = "panic" THEN Panic(c, l) ELSE Return(c, l, Error)
       ELSE Return(c, local[c], Error)
    /\ UNCHANGED <<Server, Chans, crashed>>

\* (variant: the request goes on without the authentication context)
AttachNothing(c) ==
    /\ ~crashed /\ pc[c] = "attach"
    /\ Goto(c, "handleRequest")
    /\ UNCHANGED <<Server, Chans, local, crashed>>

\* lines 221-224: request.AuthContext = authContext
AttachAuthContext(c) ==
    /\ ~crashed /\ pc[c] = "attach"
    /\ SetLocal(c, [local[c] EXCEPT
                        !.request.AuthContext = local[c].authContext])
    /\ Goto(c, "handleRequest")
    /\ UNCHANGED <<Server, Chans, crashed>>

\* lines 227-233: s.handleRequest(request, conn)
HandleRequest(c) ==
    /\ ~crashed /\ pc[c] = "handleRequest"
    /\ \E o \in {"ok", "err", "panic"} :
        LET l == [local[c] EXCEPT !.io = TRUE,
                                  !.dispatched = TRUE]
        IN  CASE o = "panic" -> Panic(c, l)
              [] o = "err" -> Return(c, l, Error)
              [] OTHER -> Return(c, l, NoError)
    /\ UNCHANGED <<Server, Chans, crashed>>

\* ------------------------------------------- ServeConn: deferred calls
\* line 175: <-s.sema (blocks while the buffer is empty)
Release(c) ==
    /\ ~crashed /\ pc[c] = "release"
    /\ sema > 0
    /\ sema' = sema - 1
    /\ SetLocal(c, [local[c] EXCEPT !.releases = @ + 1])
    /\ Goto(c, "decr")
    /\ UNCHANGED <<Fixed, ConnCount, Chans, crashed>>

\* (variant: the deferred function forgets the counter)
DecrementForgotten(c) ==
    /\ ~crashed /\ pc[c] = "decr"
    /\ SetLocal(c, [local[c] EXCEPT !.decrements = @ + 1])
    /\ Goto(c, "publishDone")
    /\ UNCHANGED <<Server, Chans, crashed>>

\* line 176: atomic.AddInt64(&s.ConnCount, -1)
Decrement(c) ==
    /\ ~crashed /\ pc[c] = "decr"
    /\ ConnCount' = ConnCount - 1
    /\ SetLocal(c, [local[c] EXCEPT !.decrements = @ + 1])
    /\ Goto(c, "publishDone")
    /\ UNCHANGED <<Fixed, sema, Chans, crashed>>

\* (variant: the deferred function does not send the decremented count)
PublishDoneSkipped(c) ==
    /\ ~crashed /\ pc[c] = "publishDone"
    /\ Goto(c, "close")
    /\ UNCHANGED <<Server, Chans, local, crashed>>

\* lines 177-180: the same non-blocking send of the count read after the
\* decrement; the deferred function ends here, it sends nothing on
\* s.FinishedConnChan
PublishDone(c) ==
    /\ ~crashed /\ pc[c] = "publishDone"
    /\ consumer' = TrySend(consumer, GetConnCount)
    /\ SetLocal(c, [local[c] EXCEPT !.publishes = @ + 1])
    /\ Goto(c, "close")
    /\ UNCHANGED <<Server, FinishedConnChan, crashed>>

\* line 166: defer conn.Close()
Close(c) ==
    /\ ~crashed /\ pc[c] = "close"
    /\ SetLocal(c, [local[c] EXCEPT !.closed = TRUE])
    /\ Goto(c, "recover")
    /\ UNCHANGED <<Server, Chans, crashed>>

\* (variant: no recover(): a panic leaves ServeConn and ends the process)
RecoverMissing(c) ==
    /\ ~crashed /\ pc[c] = "recover"
    /\ IF local[c].panicking
       THEN crashed' = TRUE /\ UNCHANGED <<pc, local>>
       ELSE Goto(c, "done") /\ UNCHANGED <<local, crashed>>
    /\ UNCHANGED <<Server, Chans>>

\* lines 161-165: if r := recover(); r != nil { log }.  A recovered panic
\* makes ServeConn return the zero value of its result, a nil error.
Recover(c) ==
    /\ ~crashed /\ pc[c] = "recover"
    /\ IF local[c].panicking
       THEN SetLocal(c, [local[c] EXCEPT !.panicking = FALSE,
                                         !.recovered = TRUE,
                                         !.ret = NoError])
       ELSE UNCHANGED local
    /\ Goto(c, "done")
    /\ UNCHANGED <<Server, Chans, crashed>>

\* ------------------------------------------------------------- consumer
\* the reader of GetConnCountChan() and GetFinishedConnChan() arrives at
\* its select { case <-countChan: case <-finishedChan: }
ConsumerReceive ==
    /\ ~crashed /\ consumer.present /\ ~consumer.waiting
    /\ consumer' = [consumer EXCEPT !.waiting = TRUE]
    /\ UNCHANGED <<Server, FinishedConnChan, pc, local, crashed>>

\* ----------------------------------------------------------------- spec
ServeConn(c) ==
    \/ Admit(c) \/ Reject(c) \/ Increment(c) \/ PublishAdmit(c)
    \/ ReadVersion(c) \/ Authenticate(c)
    \/ NewRequest(c) \/ DecodeError(c) \/ AttachAuthContext(c)
    \/ HandleRequest(c) \/ Release(c) \/ Decrement(c) \/ PublishDone(c)
    \/ Close(c) \/ Recover(c)

Next ==
    \/ \E c \in Conns : ServeConn(c)
    \/ ConsumerReceive

Spec == Init /\ [][Next]_vars

\* ------------------------------------------------------- the call of New
\* a Config is filled in and New has not been called yet
InitNew ==
    \E cf \in Configs :
        /\ conf = cf
        /\ newErr = "none"
        /\ config = cf
        /\ authMethods = <<>>
        /\ semaCap = 0 /\ sema = 0 /\ ConnCount = 0
        /\ serve = NoServe
        /\ consumer = [present |-> FALSE, waiting |-> FALSE]
        /\ FinishedConnChan = [sent |-> 0]
        /\ pc = [c \in Conns |-> "new"]
        /\ local = [c \in Conns |-> InitLocal]
        /\ crashed = FALSE

\* server, err := New(conf)
CallNew ==
    /\ newErr = "none"
    /\ LET srv == New(conf) IN
        /\ newErr' = srv.err
        /\ config' = srv.config
        /\ authMethods' = srv.authMethods
        /\ semaCap' = srv.semaCap
        /\ sema' = srv.sema
        /\ ConnCount' = srv.ConnCount
    /\ UNCHANGED <<conf, serve, Chans, pc, local, crashed>>

NextNew == CallNew

SpecNew == InitNew /\ [][NextNew]_vars

\* ------------------------------------------------------------- Serve
\* The connections reach their workers through Serve (ListenAndServe is
\* Serve on the listener it opened) or through calls of the exported
\* ServeConn by the program itself; serve.caller says which.  A connection
\* that has not been handed over is at "new".

\* (variant: the worker is started without a deadline on its connection)
AcceptNoDeadline(c) ==
    /\ ~crashed /\ serve.caller = "Serve" /\ ~serve.returned
    /\ serve.listener = "open"
    /\ pc[c] = "new"
    /\ Goto(c, "start")
    /\ UNCHANGED <<Server, Chans, local, crashed>>

\* lines 149, 152-154: Accept returns a connection; SetDeadline on it,
\* then go s.ServeConn(conn), and the loop goes on
Accept(c) ==
    /\ ~crashed /\ serve.caller = "Serve" /\ ~serve.returned
    /\ serve.listener = "open"
    /\ pc[c] = "new"
    /\ SetLocal(c, [local[c] EXCEPT !.deadline = TRUE])
    /\ Goto(c, "start")
    /\ UNCHANGED <<Server, Chans, crashed>>

\* the listener handed to Serve is closed: from now on Accept fails
ListenerClose ==
    /\ ~crashed /\ serve.caller = "Serve"
    /\ serve.listener = "open"
    /\ serve' = [serve EXCEPT !.listener = "closed"]
    /\ UNCHANGED <<conf, newErr, config, authMethods, semaCap, sema,
                   ConnCount, Chans, pc, local, crashed>>

\* lines 149-151: Accept returns an error; it is logged and the for loop
\* goes on with the next Accept (Serve has no return statement)
AcceptError ==
    /\ ~crashed /\ serve.caller = "Serve" /\ ~serve.returned
    /\ serve.listener = "closed"
    /\ serve' = [serve EXCEPT !.logged = TRUE]
    /\ UNCHANGED <<conf, newErr, config, authMethods, semaCap, sema,
                   ConnCount, Chans, pc, local, crashed>>

\* line 160: the program calls the exported ServeConn on a connection of
\* its own; nothing before the admission select touches the connection
CallServeConn(c) ==
    /\ ~crashed /\ serve.caller = "ServeConn"
    /\ pc[c] = "new"
    /\ Goto(c, "start")
    /\ UNCHANGED <<Server, Chans, local, crashed>>

\* a server with a pool of MaxConnLimit slots, nobody reading the
\* notification channels, no connection handed over yet
InitServe ==
    \E caller \in {"Serve", "ServeConn"} :
        /\ Constructed(ZeroConfig(MaxConnLimit))
        /\ serve = [caller |-> caller,
                    listener |-> IF caller = "Serve" THEN "open" ELSE "none",
                    logged |-> FALSE,
                    returned |-> FALSE]
        /\ consumer = [present |-> FALSE, waiting |-> FALSE]
        /\ FinishedConnChan = [sent |-> 0]
        /\ pc = [c \in Conns |-> "new"]
        /\ local = [c \in Conns |-> InitLocal]
        /\ crashed = FALSE

NextServe ==
    \/ \E c \in Conns : Accept(c) \/ CallServeConn(c) \/ ServeConn(c)
    \/ ListenerClose
    \/ AcceptError

SpecServe == InitServe /\ [][NextServe]_vars

\* ------------------------------------------------------- fair workers
\* Every call of a worker returns, with a value, an error or a panic, and
\* the scheduler does not stop while a goroutine can take a step.
\* the pool has MaxConnLimit slots and nobody reads the notification
\* channels
InitLive ==
    /\ Init
    /\ conf.ConnLimit = MaxConnLimit
    /\ ~consumer.present

NextLive == \E c \in Conns : ServeConn(c)

LiveSpec ==
    /\ InitLive
    /\ [][NextLive]_vars
    /\ WF_vars(NextLive)

\* ------------------------------------------------------------- claims
\* workers that acquired a slot of s.sema and have not released it
Holding == {c \in Conns : local[c].admitted /\ local[c].releases = 0}
Finished(c) == pc[c] = "done"
AllDone == \A c \in Conns : Finished(c)

\* C1: in every reachable state the number of workers that passed
\* admission and have not yet released their slot is at most ConnLimit.
C1_AdmissionBound ==
    /\ Cardinality(Holding) <= config.ConnLimit
    /\ sema <= semaCap

\* the pool is full and a further connection was turned away
C1_Witness ==
    /\ Cardinality(Holding) = config.ConnLimit
    /\ \E c \in Conns : ~local[c].admitted /\ local[c].ret = Error

\* C2: an admitted worker releases its slot exactly once and decrements
\* the counter exactly once on every exit path (return, error return,
\* panic); a worker that was not admitted does neither.
C2_ReleasePairing ==
    \A c \in Conns :
        /\ local[c].releases <= 1 /\ local[c].decrements <= 1
        /\ ~local[c].admitted =>
               local[c].releases = 0 /\ local[c].decrements = 0
        /\ Finished(c) /\ local[c].admitted =>
               local[c].releases = 1 /\ local[c].decrements = 1

\* one worker ended by a panic after admission, one was never admitted,
\* both finished
C2_Witness ==
    \E c, d \in Conns :
        /\ Finished(c) /\ local[c].admitted /\ local[c].recovered
        /\ local[c].releases = 1 /\ local[c].decrements = 1
        /\ Finished(d) /\ ~local[d].admitted

\* C3: at every quiescent point (no worker between its slot acquisition
\* and its increment, nor between its slot release and its decrement)
\* ConnCount equals the number of admitted connections still processed and
\* the number of occupied slots; once all have finished both are 0.
Quiescent == \A c \in Conns : pc[c] \notin {"incr", "decr"}

C3_QuiescentCount ==
    /\ Quiescent =>
          /\ ConnCount = Cardinality(Holding)
          /\ sema = Cardinality(Holding)
    /\ AllDone => ConnCount = 0 /\ sema = 0

\* two connections are being processed at a quiescent point
C3_Witness ==
    /\ Quiescent
    /\ Cardinality(Holding) = 2
    /\ ConnCount = 2

\* C4: admission is one non-blocking attempt: a worker that finds the slot
\* pool full does not wait, it returns the error, the connection is closed
\* and no call that reads from or writes to the connection is made.
Moved(c) == pc'[c] # pc[c]

C4_RejectedUntouched ==
    \A c \in Conns :
        /\ pc[c] = "start" /\ ~SemaHasRoom =>
               ENABLED Reject(c) /\ ~ENABLED Admit(c)
        /\ ~local[c].admitted =>
               /\ ~local[c].io /\ local[c].replies = <<>>
               /\ ~local[c].dispatched
               /\ pc[c] \in {"start", "close", "recover", "done"}
               /\ pc[c] # "start" => local[c].ret = Error
        /\ Finished(c) /\ ~local[c].admitted => local[c].closed

\* a pool of capacity 1, one connection in its handshake, the other one
\* rejected, closed and untouched
C4_Witness ==
    \E c, d \in Conns :
        /\ semaCap = 1
        /\ pc[d] = "readVersion"
        /\ Finished(c) /\ ~local[c].admitted /\ local[c].ret = Error
        /\ local[c].closed /\ ~local[c].io

\* C5: a panic raised in a worker is recovered in that worker: the process
\* goes on, the steps of the unwinding worker leave every other worker's
\* position and state alone, and the worker ends with its connection
\* closed, its slot released and its count removed.
C5_Step(c) ==
    (local[c].panicking \/ local'[c].panicking) /\ Moved(c) =>
        /\ \A d \in Conns \ {c} : pc'[d] = pc[d] /\ local'[d] = local[d]
        /\ Finished(c)' =>
               /\ local'[c].recovered /\ ~local'[c].panicking
               /\ local'[c].closed
               /\ local'[c].releases = 1 /\ local'[c].decrements = 1

C5_PanicContained ==
    [][~crashed' /\ \A c \in Conns : C5_Step(c)]_vars

\* a worker ended by a recovered panic while another one is dispatching
C5_Witness ==
    \E c, d \in Conns :
        /\ Finished(c) /\ local[c].recovered /\ local[c].closed
        /\ pc[d] = "handleRequest"
        /\ ~crashed

\* C6: the protocol steps of a connection run in the order admission,
\* version check, authentication, request decoding, dispatch, each entered
\* only from its predecessor's success, and handleRequest gets the request
\* carrying the AuthContext that authenticate returned.
C6_Step(c) ==
    /\ Moved(c) /\ pc'[c] = "readVersion" =>
           pc[c] = "publishAdmit" /\ local[c].admitted
    /\ Moved(c) /\ pc'[c] = "authenticate" =>
           pc[c] = "readVersion" /\ local'[c].version = socks5Version
    /\ Moved(c) /\ pc'[c] = "NewRequest" =>
           pc[c] = "authenticate" /\ local'[c].authContext \in AuthContexts
    /\ Moved(c) /\ pc'[c] = "attach" =>
           pc[c] = "NewRequest" /\ local'[c].request.made
    /\ Moved(c) /\ pc'[c] = "handleRequest" => pc[c] = "attach"
    /\ local'[c].dispatched /\ ~local[c].dispatched =>
           /\ pc[c] = "handleRequest"
           /\ local[c].admitted
           /\ local[c].version = socks5Version
           /\ local[c].authContext \in AuthContexts
           /\ local[c].request.made
           /\ local[c].request.AuthContext = local[c].authContext

C6_StepOrder == [][\A c \in Conns : C6_Step(c)]_vars

\* a request was dispatched and handled without error
C6_Witness ==
    \E c \in Conns :
        Finished(c) /\ local[c].dispatched /\ local[c].ret = NoError

\* C7: after the unrecognized-address-type error exactly one reply, with
\* status "address type not supported", is written and the connection ends
\* without dispatch; after any other decode error no reply is written and
\* the connection ends.
CleanupPcs == {"release", "decr", "publishDone", "close", "recover", "done"}

C7_Step(c) ==
    /\ Moved(c) /\ pc[c] = "decodeError" =>
           /\ pc'[c] = "release"
           /\ ~local'[c].dispatched
           /\ local'[c].replies =
                  IF local[c].err = unrecognizedAddrType
                  THEN <<addrTypeNotSupported>> ELSE <<>>
    /\ pc[c] \in CleanupPcs =>
           /\ local'[c].replies = local[c].replies
           /\ local'[c].dispatched = local[c].dispatched
           /\ pc'[c] \in CleanupPcs

C7_DecodeErrorReply ==
    /\ [](\A c \in Conns :
            pc[c] = "decodeError" =>
                /\ local[c].err \in {unrecognizedAddrType, otherDecodeError}
                /\ local[c].replies = <<>> /\ ~local[c].dispatched)
    /\ [][\A c \in Conns : C7_Step(c)]_vars

\* one connection ended with the reply for the address type, another one
\* is returning a different decode error, without a reply
C7_Witness ==
    \E c, d \in Conns :
        /\ Finished(c) /\ local[c].ret = Error
        /\ local[c].replies = <<addrTypeNotSupported>>
        /\ pc[d] = "decodeError" /\ local[d].err = otherDecodeError
        /\ local[d].replies = <<>>

\* C8: whenever an admitted connection reaches its end the worker attempts
\* to send a completion record on s.FinishedConnChan, one per finished
\* connection.
C8_CompletionRecordSent ==
    FinishedConnChan.sent =
        Cardinality({c \in Conns : Finished(c) /\ local[c].admitted})

\* C9: a publish on s.ConnCountChan never blocks the worker: it can always
\* be taken, and when no receiver is waiting the value is dropped (nothing
\* reaches the consumer) and the worker goes on to its next step.
PublishPcs == {"publishAdmit", "publishDone"}

C9_Step(c) ==
    Moved(c) /\ pc[c] \in PublishPcs /\ ~consumer.waiting =>
        /\ consumer' = consumer
        /\ pc'[c] = IF pc[c] = "publishAdmit" THEN "readVersion" ELSE "close"

C9_PublishNeverBlocks ==
    /\ [](\A c \in Conns :
            /\ pc[c] = "publishAdmit" => ENABLED PublishAdmit(c)
            /\ pc[c] = "publishDone" => ENABLED PublishDone(c))
    /\ [][\A c \in Conns : C9_Step(c)]_vars

\* no consumer at all, and an admitted connection went through both of its
\* publishes and finished
C9_Witness ==
    /\ ~consumer.present
    /\ \E c \in Conns :
          Finished(c) /\ local[c].admitted /\ local[c].publishes = 2

Changes(c) == local[c].increments + local[c].decrements

C10_Step(c) ==
    Moved(c) /\ pc[c] \in PublishPcs =>
        /\ local'[c].publishes = local[c].publishes + 1
        /\ IF consumer.waiting
           THEN ~consumer'.waiting
           ELSE consumer' = consumer

C17_CountWithinLimit == GetConnCount <= config.ConnLimit

\* C17 as amended: the deferred cleanup releases the slot before it
\* decrements the counter, so ConnCount may exceed ConnLimit, by at most
\* the number of workers that are between their release and their
\* decrement; at a point where no worker is there it is within ConnLimit.
Releasing == {c \in Conns : pc[c] = "decr"}

C17_CountBound ==
    /\ GetConnCount <= config.ConnLimit + Cardinality(Releasing)
    /\ GetConnCount <= Cardinality(Holding) + Cardinality(Releasing)

\* the counter is above ConnLimit: one worker released its slot and has
\* not decremented yet, another one took the slot and was counted
C17_Witness ==
    \E c, d \in Conns :
        /\ pc[c] = "decr"
        /\ local[d].admitted /\ local[d].increments = 1
        /\ local[d].releases = 0
        /\ GetConnCount > config.ConnLimit

\* C18: a rejected connection leaves the shared state of the server as it
\* was: no step of a worker that was not admitted changes the occupancy of
\* s.sema or ConnCount, or sends on ConnCountChan or FinishedConnChan.
C18_Step(c) ==
    Moved(c) /\ ~local'[c].admitted =>
        /\ sema' = sema /\ ConnCount' = ConnCount
        /\ consumer' = consumer
        /\ FinishedConnChan' = FinishedConnChan
        /\ local'[c].publishes = 0
        /\ local'[c].increments = 0 /\ local'[c].decrements = 0
        /\ local'[c].releases = 0

C18_RejectedFrame == [][\A c \in Conns : C18_Step(c)]_vars

\* a connection was rejected and has finished while the slot is held and
\* counted by the other one, and a reader waits on the channels
C18_Witness ==
    \E c, d \in Conns :
        /\ Finished(c) /\ ~local[c].admitted /\ local[c].closed
        /\ local[c].publishes = 0
        /\ local[d].admitted /\ local[d].releases = 0
        /\ sema = 1 /\ ConnCount = 1
        /\ consumer.waiting

\* C19: on every exit of an admitted connection, by return or by panic,
\* the deferred calls run in the order release of the slot, decrement of
\* ConnCount, attempt to publish the count, conn.Close(), recover(); the
\* slot is free for another admission before the socket is closed.
C19_Step(c) ==
    Moved(c) /\ local[c].admitted =>
        /\ pc[c] \notin CleanupPcs /\ pc'[c] \in CleanupPcs =>
               /\ pc'[c] = "release"
               /\ local'[c].releases = 0 /\ ~local'[c].closed
        /\ pc[c] = "release" =>
               /\ pc'[c] = "decr" /\ local'[c].releases = 1
               /\ sema' = sema - 1
               /\ local[c].decrements = 0 /\ ~local'[c].closed
        /\ pc[c] = "decr" =>
               /\ pc'[c] = "publishDone" /\ local'[c].decrements = 1
               /\ local[c].publishes = 1 /\ ~local'[c].closed
        /\ pc[c] = "publishDone" =>
               /\ pc'[c] = "close" /\ local'[c].publishes = 2
               /\ ~local'[c].closed
        /\ pc[c] = "close" =>
               /\ pc'[c] = "recover" /\ local'[c].closed
               /\ local'[c].panicking = local[c].panicking
               /\ ~local'[c].recovered
        /\ pc[c] = "recover" =>
               /\ pc'[c] = "done" /\ ~local'[c].panicking
               /\ local'[c].recovered = local[c].panicking

C19_CleanupOrder ==
    /\ [](\A c \in Conns :
            local[c].admitted /\ local[c].closed =>
                local[c].releases = 1 /\ local[c].decrements = 1)
    /\ [][\A c \in Conns : C19_Step(c)]_vars

\* a panicking worker has released the only slot and has not closed its
\* socket yet, and the other connection already holds the slot
C19_Witness ==
    \E c, d \in Conns :
        /\ semaCap = 1
        /\ pc[c] = "close" /\ local[c].admitted /\ local[c].panicking
        /\ local[c].releases = 1 /\ ~local[c].closed
        /\ local[d].admitted /\ local[d].releases = 0

\* C20: ConnCount is never negative, so every published value is
\* non-negative, and the value a worker publishes right after its own
\* admission, read again after its increment, is at least 1.
C20_CountNonNegative ==
    /\ ConnCount >= 0
    /\ \A c \in Conns :
         /\ pc[c] = "publishAdmit" => GetConnCount >= 1
         /\ pc[c] = "publishDone" => GetConnCount >= 0

\* two workers were counted and neither has published yet: the increment
\* of one of them produced 1, and both are about to read and publish 2
C20_Witness ==
    \E c, d \in Conns :
        /\ c # d
        /\ pc[c] = "publishAdmit" /\ pc[d] = "publishAdmit"
        /\ GetConnCount = 2

\* C14: when the read of the first byte fails, or the byte is not
\* socks5Version, the worker returns an error and goes to its cleanup:
\* authenticate is entered only with version[0] = 5, and such a connection
\* gets no reply written, no request decoded and none dispatched.
C14_Step(c) ==
    /\ Moved(c) /\ pc[c] = "readVersion" =>
           \/ /\ pc'[c] = "authenticate"
              /\ local'[c].version = socks5Version
              /\ local'[c].ret = "none"
           \/ /\ pc'[c] = "release"
              /\ local'[c].ret = VersionError \/ local'[c].panicking
              /\ local'[c].authContext = NoAuthContext
              /\ ~local'[c].request.made
              /\ local'[c].replies = <<>> /\ ~local'[c].dispatched
    /\ Moved(c) /\ pc'[c] \in {"authenticate", "NewRequest", "attach",
                               "decodeError", "handleRequest"} =>
           local'[c].version = socks5Version /\ local'[c].ret = "none"
    /\ local[c].ret = VersionError =>
           /\ pc'[c] \in CleanupPcs
           /\ local'[c].ret = VersionError
           /\ local'[c].authContext = NoAuthContext
           /\ ~local'[c].request.made
           /\ local'[c].replies = <<>> /\ ~local'[c].dispatched

C14_VersionError ==
    /\ [](\A c \in Conns :
            local[c].ret = VersionError =>
                /\ local[c].admitted /\ pc[c] \in CleanupPcs
                /\ ~local[c].panicking /\ ~local[c].recovered)
    /\ [][\A c \in Conns : C14_Step(c)]_vars

\* a connection ended with the version error, closed and with its slot
\* given back, while the other one, whose first byte was 5, authenticates
C14_Witness ==
    \E c, d \in Conns :
        /\ Finished(c) /\ local[c].ret = VersionError
        /\ local[c].closed /\ local[c].releases = 1
        /\ local[c].replies = <<>> /\ ~local[c].dispatched
        /\ pc[d] = "authenticate" /\ local[d].version = socks5Version

\* C16: New gives the s.sema of a Config with ConnLimit 0 the capacity
\* 50000 and that of a Config with a positive ConnLimit the capacity
\* ConnLimit, and it returns a nil error.
C16_PoolCapacity ==
    newErr # "none" =>
        /\ newErr = NoError
        /\ conf.ConnLimit = 0 => semaCap = 50000
        /\ conf.ConnLimit > 0 => semaCap = conf.ConnLimit
        /\ config.ConnLimit = semaCap
        /\ sema = 0

\* New was called with ConnLimit 0 and the pool has 50000 slots
C16_Witness ==
    /\ newErr = NoError
    /\ conf.ConnLimit = 0
    /\ semaCap = DefaultConnLimit

\* C15: after New, a Config with Credentials has a UserPassAuthenticator
\* in s.authMethods, next to the authenticators of its AuthMethods; a
\* Config without Credentials and without AuthMethods has the
\* NoAuthAuthenticator and nothing else.
TableTypes == {authMethods[code].type : code \in DOMAIN authMethods}

C15_CredentialsEnableUserPass ==
    newErr # "none" =>
        /\ conf.Credentials # Nil =>
               "UserPassAuthenticator" \in TableTypes
        /\ conf.Credentials = Nil /\ conf.AuthMethods = <<>> =>
               /\ DOMAIN authMethods = {NoAuthAuthenticator.code}
               /\ TableTypes = {"NoAuthAuthenticator"}

\* C11 as claimed: whichever exported function brings a connection to its
\* worker (Serve, ListenAndServe or ServeConn), SetDeadline was called on
\* it before the admission attempt and before the first byte is read.
C11_DeadlineBeforeWork ==
    \A c \in Conns : pc[c] # "new" => local[c].deadline

\* C11 as amended: the accept loop of Serve calls SetDeadline on every
\* connection it accepts before it starts the worker, so such a connection
\* has its deadline at the admission attempt and at the first read; a
\* connection that the program hands to ServeConn itself gets no deadline.
C11_Step(c) ==
    /\ Moved(c) /\ pc[c] = "new" =>
           /\ pc'[c] = "start"
           /\ local'[c].deadline = (serve.caller = "Serve")
           /\ ~local'[c].admitted /\ ~local'[c].io
    /\ Moved(c) /\ pc[c] \in {"start", "readVersion"} =>
           local[c].deadline = (serve.caller = "Serve")
    /\ local'[c].deadline # local[c].deadline => pc[c] = "new"

C11_DeadlineSetByServe ==
    /\ [](\A c \in Conns :
            pc[c] # "new" => local[c].deadline = (serve.caller = "Serve"))
    /\ [][\A c \in Conns : C11_Step(c)]_vars

\* a connection accepted by Serve is about to have its first byte read,
\* with its deadline set
C11_Witness ==
    \E c \in Conns :
        /\ serve.caller = "Serve"
        /\ pc[c] = "readVersion" /\ local[c].deadline

\* C12: no event of a connection (a full pool, a protocol error, a panic
\* in a worker) ends or blocks the accept loop of Serve: a connection that
\* arrives on the open listener can be accepted whatever the workers are
\* doing; and once Accept has failed on the closed listener the loop has
\* ended and Serve has returned.
C12_AcceptLoop ==
    /\ \A c \in Conns :
         serve.caller = "Serve" /\ serve.listener = "open" /\ pc[c] = "new"
             => ENABLED Accept(c)
    /\ serve.returned => serve.logged
    /\ serve.logged => serve.returned

\* C13: with fair scheduling and calls that all return, every admitted
\* connection ends with its slot released, its count removed and its
\* socket closed; and no step of a worker goes back to an earlier one, so
\* no failure is retried.
PcOrder ==
    <<"new", "start", "incr", "publishAdmit", "readVersion", "authenticate",
      "NewRequest", "attach", "decodeError", "handleRequest", "release",
      "decr", "publishDone", "close", "recover", "done">>
Rank(l) == CHOOSE i \in 1..Len(PcOrder) : PcOrder[i] = l

Closed(c) ==
    /\ Finished(c) /\ local[c].closed
    /\ local[c].releases = 1 /\ local[c].decrements = 1

\* (an admitted worker stays admitted and a closed one stays closed, so
\* that "from some point on every admitted connection is closed" says that
\* each of them is closed eventually)
C13_EventuallyClosed ==
    /\ <>[](\A c \in Conns : local[c].admitted => Closed(c))
    /\ [][\A c \in Conns :
            /\ local[c].admitted => local'[c].admitted
            /\ Closed(c) => Closed(c)'
            /\ Moved(c) => Rank(pc'[c]) > Rank(pc[c])]_vars

\* both connections were admitted and have ended, one with an error and
\* one with a panic; nothing is held or counted any more
C13_Witness ==
    \E c, d \in Conns :
        /\ Closed(c) /\ local[c].admitted /\ local[c].ret = Error
        /\ Closed(d) /\ local[d].admitted /\ local[d].recovered
        /\ sema = 0 /\ ConnCount = 0

====
